---- MODULE Spec2Model ----
(***************************************************************************)
(* A model of aoc_utils/grid.py: the Grid container, its indexed access,   *)
(* its neighbour enumeration, its breadth-first searches and its           *)
(* structural transforms.                                                  *)
(*                                                                         *)
(* Python values are encoded as follows.  An optional argument (int | None,*)
(* bool | None) is a sequence: <<>> is None and <<v>> is the value v.  A   *)
(* cell is a string; the Python value None held in a cell, or returned by  *)
(* get, is the string NoneVal.  A point is the pair <<x, y>>.  A call that *)
(* raises reports the exception's name in err; "ok" is a normal return.    *)
(***************************************************************************)
EXTENDS Integers, Sequences, FiniteSets, TLC

VARIABLES
    self,    \* the Grid object: [w, h, data, allow_overflow]
    ctor,    \* how Grid.__init__ ended, and the w and h it set
    pc,      \* "idle": between calls; "returned": a call has just ended;
             \* "loop", "after": inside a search and past its loop;
             \* "failed": the search raised; "exhausted": the generator ended
    last,    \* the call in progress or just ended: name, arguments, pre-state
    ret,     \* what that call returned
    queue,        \* shortest_path / reachable: the deque
    seen,         \* shortest_path / reachable: the set of points seen
    predecessors, \* shortest_path: the dict point -> point | None
    yielded       \* reachable: the pairs yielded so far, in order

search == <<queue, seen, predecessors, yielded>>

vars == <<self, ctor, pc, last, ret, queue, seen, predecessors, yielded>>

----------------------------------------------------------------------------
(* Bounds of the model *)

\* the longest flat sequence handed to Grid.__init__
MaxLen == 4

\* coordinates of the points handed to the operations run over -1 .. MaxCoord
MaxCoord == 2

\* the widest and highest grid the searches run on
MaxDim == 3

\* the most cells of a grid the searches run on
MaxCells == 9

\* the most walls ("#") in a grid the searches run on
MaxWalls == 1

\* a search is followed while it stays within MaxRadius cells of the grid
MaxRadius == 1

\* the largest min_steps and max_steps handed to reachable
MaxSteps == 2

----------------------------------------------------------------------------
(* Python values *)

None == <<>>

Some(v) == <<v>>

NoneVal == "None"

\* the cell values a caller stores
Values == {NoneVal, "a"}

\* f"[{color}]{value}[/{color}]" for the one colour and the one string used
Markup(color, value) ==
    IF color = "red" /\ value = "a" THEN "[red]a[/red]" ELSE value

\* the colour argument of replace: the calls modelled pass none
Colors == {None}

OptBool == {None, Some(FALSE), Some(TRUE)}

\* the defaults handed to get
Defaults == {NoneVal, "d"}

Coords == (0 - 1) .. MaxCoord

Points == Coords \X Coords

DataSeqs == UNION {[1 .. n -> Values] : n \in 1 .. MaxLen}

OptDims == {None} \cup {Some(n) : n \in 0 .. MaxLen}

\* int(sqrt(n))
IntSqrt(n) == CHOOSE r \in 0 .. n : r * r <= n /\ (r + 1) * (r + 1) > n

\* a Python list index: i in [0, len) counts from the front, i in [-len, 0)
\* from the back, anything else raises IndexError (reported as 0)
PyIndex(len, i) ==
    IF 0 <= i /\ i < len THEN i + 1
    ELSE IF 0 - len <= i /\ i < 0 THEN len + i + 1
    ELSE 0

----------------------------------------------------------------------------
(* Grid.__init__ *)

NoGrid == [w |-> 0, h |-> 0, data |-> <<>>, allow_overflow |-> FALSE]

\* `h or ...` and `elif h:` test h's truth: None and 0 are both false
Truthy(opt) == opt # None /\ opt[1] # 0

\* lines 29-39: the dimensions, or the exception raised while computing them
InitDims(len_data, w, h) ==
    IF w # None
    THEN IF Truthy(h) THEN [err |-> "ok", w |-> w[1], h |-> h[1]]
         ELSE IF w[1] = 0 THEN [err |-> "ZeroDivisionError", w |-> 0, h |-> 0]
         ELSE [err |-> "ok", w |-> w[1], h |-> len_data \div w[1]]
    ELSE IF Truthy(h)
         THEN [err |-> "ok", w |-> len_data \div h[1], h |-> h[1]]
         ELSE [err |-> "ok", w |-> IntSqrt(len_data), h |-> IntSqrt(len_data)]

\* lines 29-44: the whole constructor
GridInit(data, w, h, allow_overflow) ==
    LET d == InitDims(Len(data), w, h) IN
    IF d.err # "ok" THEN [err |-> d.err, grid |-> NoGrid]
    ELSE IF d.w * d.h # Len(data) THEN [err |-> "AssertionError", grid |-> NoGrid]
    ELSE [err |-> "ok",
          grid |-> [w |-> d.w, h |-> d.h, data |-> data,
                    allow_overflow |-> allow_overflow]]

----------------------------------------------------------------------------
(* Indexed access *)

\* lines 265-268
resolve_allow_overflow(g, allow_overflow) ==
    IF allow_overflow = None THEN g.allow_overflow ELSE allow_overflow[1]

\* lines 339-341
inbounds(g, p) == 0 <= p[1] /\ p[1] < g.w /\ 0 <= p[2] /\ p[2] < g.h

\* the moduli taken the wrong way round: x % h, y % w
WrappedSwapped(g, p, allow_overflow) ==
    IF resolve_allow_overflow(g, allow_overflow)
    THEN IF g.w = 0 \/ g.h = 0
         THEN [err |-> "ZeroDivisionError", x |-> 0, y |-> 0]
         ELSE [err |-> "ok", x |-> p[1] % g.h, y |-> p[2] % g.w]
    ELSE [err |-> "ok", x |-> p[1], y |-> p[2]]

\* lines 273-275: the coordinates at looks up, or the exception of x % 0
Wrapped(g, p, allow_overflow) ==
    IF resolve_allow_overflow(g, allow_overflow)
    THEN IF g.w = 0 \/ g.h = 0
         THEN [err |-> "ZeroDivisionError", x |-> 0, y |-> 0]
         ELSE [err |-> "ok", x |-> p[1] % g.w, y |-> p[2] % g.h]
    ELSE [err |-> "ok", x |-> p[1], y |-> p[2]]

\* lines 270-276
at(g, p, allow_overflow) ==
    LET c == Wrapped(g, p, allow_overflow)
        i == PyIndex(Len(g.data), c.y * g.w + c.x)
    IN  IF c.err # "ok" THEN [err |-> c.err, val |-> NoneVal]
        ELSE IF i = 0 THEN [err |-> "IndexError", val |-> NoneVal]
        ELSE [err |-> "ok", val |-> g.data[i]]

\* get that forgets the caller's default
GetWithoutDefault(g, p, default, allow_overflow) ==
    IF inbounds(g, p) THEN at(g, p, allow_overflow)
    ELSE IF resolve_allow_overflow(g, allow_overflow) THEN at(g, p, Some(TRUE))
    ELSE [err |-> "ok", val |-> NoneVal]

\* lines 327-337: `or` does not evaluate the walrus when the point is in
\* bounds, so at then receives the argument as passed
get(g, p, default, allow_overflow) ==
    IF inbounds(g, p) THEN at(g, p, allow_overflow)
    ELSE IF resolve_allow_overflow(g, allow_overflow) THEN at(g, p, Some(TRUE))
    ELSE [err |-> "ok", val |-> default]

----------------------------------------------------------------------------
(* Mutation *)

\* line 67: [value] * w * h
FillShort(value, w, h) == [i \in 1 .. w |-> value]

FillData(value, w, h) == [i \in 1 .. w * h |-> value]

\* data[i] = v on a Python list (line 292, lines 139-142)
SetItem(data, i, v) ==
    IF PyIndex(Len(data), i) = 0 THEN [err |-> "IndexError", data |-> data]
    ELSE [err |-> "ok", data |-> [data EXCEPT ![PyIndex(Len(data), i)] = v]]

\* lines 285-292: the data after the call and how the call ended
ReplaceData(g, p, value, color, allow_overflow) ==
    LET v == IF color # None THEN Markup(color[1], value) ELSE value IN
    IF resolve_allow_overflow(g, allow_overflow)
    THEN LET c == Wrapped(g, p, Some(TRUE)) IN
         IF c.err # "ok" THEN [err |-> c.err, data |-> g.data]
         ELSE SetItem(g.data, c.y * g.w + c.x, v)
    ELSE LET probe == get(g, p, NoneVal, None) IN
         IF probe.err # "ok" THEN [err |-> probe.err, data |-> g.data]
         ELSE IF probe.val = NoneVal THEN [err |-> "ok", data |-> g.data]
         ELSE SetItem(g.data, p[2] * g.w + p[1], v)

----------------------------------------------------------------------------
(* Point and Direction (aoc_utils/point.py) *)

\* the four orthogonal directions, then the four diagonal ones
Cardinals == <<"UP", "RIGHT", "DOWN", "LEFT">>

Diagonals == <<"UPPER_LEFT", "UPPER_RIGHT", "BOTTOM_RIGHT", "BOTTOM_LEFT">>

Directions == {Cardinals[i] : i \in 1 .. 4} \cup {Diagonals[i] : i \in 1 .. 4}

\* the coordinate delta of a direction; y grows downwards, as rows do
Delta(d) ==
    CASE d = "UP" -> <<0, 0 - 1>>
      [] d = "RIGHT" -> <<1, 0>>
      [] d = "DOWN" -> <<0, 1>>
      [] d = "LEFT" -> <<0 - 1, 0>>
      [] d = "UPPER_LEFT" -> <<0 - 1, 0 - 1>>
      [] d = "UPPER_RIGHT" -> <<1, 0 - 1>>
      [] d = "BOTTOM_RIGHT" -> <<1, 1>>
      [] d = "BOTTOM_LEFT" -> <<0 - 1, 1>>

\* Point.neighbor
neighbor(p, d) == <<p[1] + Delta(d)[1], p[2] + Delta(d)[2]>>

\* Point.neighbors_with_direction: the candidate directions in their order
neighbors_with_direction(p, include_diagonal) ==
    LET ds == IF include_diagonal THEN Cardinals \o Diagonals ELSE Cardinals
    IN  [i \in 1 .. Len(ds) |-> <<neighbor(p, ds[i]), ds[i]>>]

----------------------------------------------------------------------------
(* Filters and neighbour enumeration *)

\* exclude / include: None, a literal cell value, or a callable (point, cell)
NoFilter == [kind |-> "none", v |-> NoneVal]

Literal(v) == [kind |-> "literal", v |-> v]

Callable(name) == [kind |-> "callable", v |-> name]

\* the one predicate callers pass here: lambda p, c: p.x == p.y
CallFilter(name, point, cell) == point[1] = point[2]

Filters == {NoFilter, Literal("a"), Callable("on_diagonal")}

\* the (exclude, include) pairs handed to neighbors
FilterPairs ==
    {<<NoFilter, NoFilter>>, <<Literal("a"), NoFilter>>,
     <<NoFilter, Literal("a")>>, <<Callable("on_diagonal"), NoFilter>>,
     <<NoFilter, Callable("on_diagonal")>>}

\* lines 69-90
should_include(point, cell, exclude, include) ==
    IF exclude.kind = "callable" /\ CallFilter(exclude.v, point, cell) THEN FALSE
    ELSE IF exclude.kind = "literal" /\ cell = exclude.v THEN FALSE
    ELSE IF include.kind = "callable" /\ ~CallFilter(include.v, point, cell)
         THEN FALSE
    ELSE IF include.kind = "literal" /\ cell # include.v THEN FALSE
    ELSE TRUE

\* lines 343-357: the triples (neighbor, value, direction) yielded, in order;
\* a value of None ends the candidate, whether it is get's default or a cell
neighbors(g, p, exclude, include, allow_overflow, include_diagonal) ==
    LET cand == neighbors_with_direction(p, include_diagonal)
        v(c) == get(g, c[1], NoneVal, allow_overflow).val
        Keep(c) == v(c) # NoneVal /\ should_include(c[1], v(c), exclude, include)
        kept == SelectSeq(cand, Keep)
    IN  [i \in 1 .. Len(kept) |-> <<kept[i][1], v(kept[i]), kept[i][2]>>]

----------------------------------------------------------------------------
(* Structural transforms *)

\* the rows taken for the columns
IterColsByRows(g) ==
    [r \in 1 .. g.h |-> [c \in 1 .. g.w |-> g.data[(r - 1) * g.w + (c - 1) + 1]]]

\* lines 252-254: the columns, each a sequence of cells
iter_cols(g) ==
    [c \in 1 .. g.w |-> [r \in 1 .. g.h |-> g.data[(r - 1) * g.w + (c - 1) + 1]]]

\* [cell for seq in seqs for cell in seq]
RECURSIVE Flatten(_)
Flatten(seqs) ==
    IF seqs = <<>> THEN <<>> ELSE Head(seqs) \o Flatten(Tail(seqs))

\* lines 233-236: Grid(columns flattened, w=self.h, h=self.w)
transpose(g) == GridInit(Flatten(iter_cols(g)), Some(g.h), Some(g.w), FALSE)

\* the column left as it is
NotReversed(seq) == seq

\* reversed(list(col))
Reversed(seq) == [i \in 1 .. Len(seq) |-> seq[Len(seq) + 1 - i]]

\* line 240: the columns in order, each reversed
ReversedCols(g) == [c \in 1 .. g.w |-> Reversed(iter_cols(g)[c])]

\* lines 238-243: Grid(reversed columns flattened, w=self.h, h=self.w)
rotate(g) == GridInit(Flatten(ReversedCols(g)), Some(g.h), Some(g.w), FALSE)

\* g.rotate() applied n times, or the first constructor failure on the way
RECURSIVE RotateTimes(_, _)
RotateTimes(g, n) ==
    IF n = 0 THEN [err |-> "ok", grid |-> g]
    ELSE IF RotateTimes(g, n - 1).err # "ok" THEN RotateTimes(g, n - 1)
    ELSE rotate(RotateTimes(g, n - 1).grid)

----------------------------------------------------------------------------
(* Equality and hashing *)

\* lines 400-403, for another Grid: the flat data alone is compared
GridEq(a, b) == a.data = b.data

\* hashes are kept in a narrow range: CPython's are 64 bits wide
HashModulus == 8191

\* hash(cell): equal cells have equal hashes
CellHash(v) ==
    CASE v = NoneVal -> 7
      [] v = "a" -> 11
      [] OTHER -> 13

\* hash(tuple(data)): a function of the cells' hashes in their order
RECURSIVE TupleHash(_)
TupleHash(data) ==
    IF data = <<>> THEN 5
    ELSE (TupleHash(SubSeq(data, 1, Len(data) - 1)) * 31
          + CellHash(data[Len(data)])) % HashModulus

\* hash() of what __hash__ returns: -1 is reserved and becomes -2
PyHash(n) == IF n = 0 - 1 THEN 0 - 2 ELSE n

\* lines 405-406: hash(tuple(self.data)) + hash(self.w) - hash(self.h); the
\* hash of a small non-negative int is the int
GridHash(g) == PyHash(TupleHash(g.data) + g.w - g.h)

\* the grids a grid is compared with: every successful Grid(data, w=, h=)
OtherGrids ==
    {GridInit(data, w, h, FALSE).grid :
        <<data, w, h>> \in
            {a \in DataSeqs \X OptDims \X OptDims :
                GridInit(a[1], a[2], a[3], FALSE).err = "ok"}}

----------------------------------------------------------------------------
(* swap *)

\* the second argument of swap: a Point or a Direction
SwapTargets ==
    {[isDirection |-> FALSE, p |-> p, d |-> "UP"] : p \in Points}
    \cup {[isDirection |-> TRUE, p |-> <<0, 0>>, d |-> d] : d \in Directions}

\* lines 136-143
SwapData(g, p1, p2) ==
    LET q == IF p2.isDirection THEN neighbor(p1, p2.d) ELSE p2.p
        i == p1[2] * g.w + p1[1]
        j == q[2] * g.w + q[1]
        n == Len(g.data)
    IN  IF PyIndex(n, i) = 0 \/ PyIndex(n, j) = 0
        THEN [err |-> "IndexError", data |-> g.data, p2 |-> q]
        ELSE LET first == SetItem(g.data, i, g.data[PyIndex(n, j)]).data
             IN  [err |-> "ok",
                  data |-> SetItem(first, j, g.data[PyIndex(n, i)]).data,
                  p2 |-> q]

----------------------------------------------------------------------------
(* The grid under construction and mutation *)

NoCall == [op |-> "none"]

\* no search is running
NoSearch ==
    /\ queue = <<>>
    /\ seen = {}
    /\ predecessors = <<>>
    /\ yielded = <<>>

\* Grid(data, w=w, h=h, allow_overflow=ao) has just been called
Init ==
    \E data \in DataSeqs, w \in OptDims, h \in OptDims, ao \in BOOLEAN :
        LET r == GridInit(data, w, h, ao) IN
        /\ self = r.grid
        /\ ctor = [err |-> r.err, w |-> r.grid.w, h |-> r.grid.h]
        /\ pc = "returned"
        /\ last = [op |-> "__init__", data |-> data, w |-> w, h |-> h,
                   err |-> r.err]
        /\ ret = NoneVal
        /\ NoSearch

Ready == ctor.err = "ok" /\ pc = "idle"

\* lines 66-67
fill ==
    \E value \in Values :
        /\ Ready
        /\ self' = [self EXCEPT !.data = FillData(value, self.w, self.h)]
        /\ last' = [op |-> "fill", value |-> value, err |-> "ok"]
        /\ ret' = NoneVal
        /\ pc' = "returned"
        /\ UNCHANGED <<ctor, search>>

\* lines 278-292
replace ==
    \E p \in Points, value \in Values, color \in Colors, ao \in OptBool :
        LET r == ReplaceData(self, p, value, color, ao) IN
        /\ Ready
        /\ self' = [self EXCEPT !.data = r.data]
        /\ last' = [op |-> "replace", p |-> p, value |-> value, color |-> color,
                    allow_overflow |-> ao, pre |-> self, err |-> r.err]
        /\ ret' = NoneVal
        /\ pc' = "returned"
        /\ UNCHANGED <<ctor, search>>

\* lines 136-143
swap ==
    \E p1 \in Points, p2 \in SwapTargets :
        LET r == SwapData(self, p1, p2) IN
        /\ Ready
        /\ self' = [self EXCEPT !.data = r.data]
        /\ last' = [op |-> "swap", err |-> r.err]
        /\ ret' = r.p2
        /\ pc' = "returned"
        /\ UNCHANGED <<ctor, search>>

\* lines 270-276
AtCall ==
    \E p \in Points, ao \in OptBool :
        /\ Ready
        /\ last' = [op |-> "at", p |-> p, allow_overflow |-> ao,
                    err |-> at(self, p, ao).err]
        /\ ret' = at(self, p, ao).val
        /\ pc' = "returned"
        /\ UNCHANGED <<self, ctor, search>>

\* lines 327-337
GetCall ==
    \E p \in Points, default \in Defaults, ao \in OptBool :
        /\ Ready
        /\ last' = [op |-> "get", p |-> p, default |-> default,
                    allow_overflow |-> ao, err |-> get(self, p, default, ao).err]
        /\ ret' = get(self, p, default, ao).val
        /\ pc' = "returned"
        /\ UNCHANGED <<self, ctor, search>>

\* lines 343-357, the generator run to its end
NeighborsCall ==
    \E p \in Points, f \in FilterPairs,
       ao \in OptBool, include_diagonal \in BOOLEAN :
        /\ Ready
        /\ last' = [op |-> "neighbors", p |-> p, exclude |-> f[1],
                    include |-> f[2], allow_overflow |-> ao,
                    include_diagonal |-> include_diagonal, err |-> "ok"]
        /\ ret' = neighbors(self, p, f[1], f[2], ao, include_diagonal)
        /\ pc' = "returned"
        /\ UNCHANGED <<self, ctor, search>>

\* lines 233-236
TransposeCall ==
    /\ Ready
    /\ last' = [op |-> "transpose", pre |-> self, err |-> transpose(self).err]
    /\ ret' = transpose(self).grid
    /\ pc' = "returned"
    /\ UNCHANGED <<self, ctor, search>>

\* self.transpose().transpose()
TransposeTwiceCall ==
    /\ Ready
    /\ transpose(self).err = "ok"
    /\ last' = [op |-> "transpose.transpose", pre |-> self,
                err |-> transpose(transpose(self).grid).err]
    /\ ret' = transpose(transpose(self).grid).grid
    /\ pc' = "returned"
    /\ UNCHANGED <<self, ctor, search>>

\* lines 238-243
RotateCall ==
    /\ Ready
    /\ last' = [op |-> "rotate", pre |-> self, err |-> rotate(self).err]
    /\ ret' = rotate(self).grid
    /\ pc' = "returned"
    /\ UNCHANGED <<self, ctor, search>>

\* self.rotate().rotate().rotate().rotate()
RotateFourCall ==
    /\ Ready
    /\ last' = [op |-> "rotate.rotate.rotate.rotate", pre |-> self,
                err |-> RotateTimes(self, 4).err]
    /\ ret' = RotateTimes(self, 4).grid
    /\ pc' = "returned"
    /\ UNCHANGED <<self, ctor, search>>

\* lines 400-406: self == other, hash(self) and hash(other), as a set or a
\* dict evaluates them when both grids are used as keys
EqHashCall ==
    /\ Ready
    /\ \E other \in OtherGrids :
          /\ last' = [op |-> "__eq__", pre |-> self, other |-> other,
                      err |-> "ok"]
          /\ ret' = [eq |-> GridEq(self, other),
                     hash_self |-> GridHash(self),
                     hash_other |-> GridHash(other)]
    /\ pc' = "returned"
    /\ UNCHANGED <<self, ctor, search>>

\* the caller takes the result and goes on
Resume ==
    /\ pc = "returned"
    /\ pc' = "idle"
    /\ last' = NoCall
    /\ ret' = NoneVal
    /\ UNCHANGED <<self, ctor, search>>

\* construction and mutation
Next ==
    \/ fill
    \/ replace
    \/ swap
    \/ Resume

\* construction and the calls that read the grid
NextQuery ==
    \/ AtCall
    \/ GetCall
    \/ NeighborsCall
    \/ TransposeCall
    \/ TransposeTwiceCall
    \/ RotateCall
    \/ RotateFourCall
    \/ Resume

\* construction and the comparison of the grid with another
NextEq ==
    \/ EqHashCall
    \/ Resume

Spec == Init /\ [][Next]_vars

SpecQuery == Init /\ [][NextQuery]_vars

SpecEq == Init /\ [][NextEq]_vars

----------------------------------------------------------------------------
(* The grids and arguments of the searches *)

\* the flat data of the w x h grids of "." with at most MaxWalls cells "#"
SearchData(w, h) ==
    {d \in [1 .. w * h -> {".", "#"}] :
        Cardinality({i \in 1 .. w * h : d[i] = "#"}) <= MaxWalls}

\* Grid(data, w=w, h=h, allow_overflow=ao) for such data
SearchGrids ==
    UNION {{GridInit(d, Some(wh[1]), Some(wh[2]), ao).grid :
               d \in SearchData(wh[1], wh[2]), ao \in BOOLEAN} :
           wh \in {d \in (1 .. MaxDim) \X (1 .. MaxDim) :
                      d[1] * d[2] <= MaxCells}}

\* the points of a grid
PointsOf(g) == (0 .. g.w - 1) \X (0 .. g.h - 1)

\* the (exclude, include) pairs handed to the searches
SearchFilters == {<<NoFilter, NoFilter>>, <<Literal("#"), NoFilter>>}

\* the points within MaxRadius cells of the grid
Box(g) == ((0 - MaxRadius) .. (g.w - 1 + MaxRadius))
          \X ((0 - MaxRadius) .. (g.h - 1 + MaxRadius))

\* the points neighbors yields around p for the call c
NeighborPoints(g, c, p) ==
    LET n == neighbors(g, p, c.exclude, c.include, c.allow_overflow,
                       c.include_diagonal)
    IN  [i \in 1 .. Len(n) |-> n[i][1]]

\* every candidate around p lies in the box: the step is followed
InBox(g, c, p) ==
    LET cand == neighbors_with_direction(p, c.include_diagonal)
    IN  \A i \in 1 .. Len(cand) : cand[i][1] \in Box(g)

\* deque.pop(): the newest element first
pop(q) == [item |-> q[Len(q)], rest |-> SubSeq(q, 1, Len(q) - 1)]

\* deque.popleft()
popleft(q) == [item |-> Head(q), rest |-> Tail(q)]

----------------------------------------------------------------------------
(* shortest_path *)

\* lines 183-190: back from the target along predecessors, then reversed
RECURSIVE Backtrack(_, _)
Backtrack(pred, step) ==
    IF step = None THEN <<>> ELSE Backtrack(pred, pred[step]) \o <<step>>

\* lines 158-160: shortest_path has been called on a grid and has set up
\* queue, seen and predecessors
InitPath ==
    \E g \in SearchGrids :
    \E source \in PointsOf(g), target \in PointsOf(g), f \in SearchFilters,
       include_diagonal \in BOOLEAN :
        /\ self = g
        /\ ctor = [err |-> "ok", w |-> g.w, h |-> g.h]
        /\ pc = "loop"
        /\ last = [op |-> "shortest_path", source |-> source,
                   target |-> target, exclude |-> f[1], include |-> f[2],
                   include_diagonal |-> include_diagonal,
                   allow_overflow |-> None, err |-> "ok"]
        /\ ret = <<>>
        /\ queue = <<source>>
        /\ seen = {source}
        /\ predecessors = [q \in {source} |-> None]
        /\ yielded = <<>>

\* lines 179-190: after the loop
PathResult ==
    IF last.target \notin DOMAIN predecessors
    THEN [err |-> "No path found", path |-> <<>>]
    ELSE [err |-> "ok", path |-> Backtrack(predecessors, last.target)]

\* lines 166-176: the neighbours of current not seen before, in order
Unseen(g, c, current, old) ==
    SelectSeq(NeighborPoints(g, c, current), LAMBDA q : q \notin old)

\* lines 161-176: one iteration of `while queue`
ShortestPathStep ==
    /\ last.op = "shortest_path"
    /\ pc = "loop"
    /\ queue # <<>>
    /\ InBox(self, last, popleft(queue).item)
    /\ \E current \in {popleft(queue).item} :
       \E fresh \in {Unseen(self, last, current, seen)} :
       \E new \in {{fresh[i] : i \in 1 .. Len(fresh)}} :
          IF current = last.target
          THEN /\ pc' = "after"
               /\ queue' = popleft(queue).rest
               /\ UNCHANGED <<seen, predecessors>>
          ELSE /\ pc' = "loop"
               /\ queue' = popleft(queue).rest \o fresh
               /\ seen' = seen \cup new
               /\ predecessors' =
                     [q \in DOMAIN predecessors \cup new |->
                         IF q \in new THEN current ELSE predecessors[q]]
    /\ UNCHANGED <<self, ctor, last, ret, yielded>>

\* lines 178-190: the loop has ended, by break or on an empty queue
ShortestPathEnd ==
    /\ last.op = "shortest_path"
    /\ pc = "after" \/ (pc = "loop" /\ queue = <<>>)
    /\ pc' = IF PathResult.err = "ok" THEN "returned" ELSE "failed"
    /\ last' = [last EXCEPT !.err = PathResult.err]
    /\ ret' = PathResult.path
    /\ UNCHANGED <<self, ctor, search>>

NextPath == ShortestPathStep \/ ShortestPathEnd

SpecPath == InitPath /\ [][NextPath]_vars

----------------------------------------------------------------------------
(* reachable *)

\* the (exclude, include) pairs handed to reachable on g: the default (no
\* filter) on the grids without a wall, include="." on every grid
ReachFilters(g) ==
    IF \A i \in 1 .. Len(g.data) : g.data[i] = "."
    THEN {<<NoFilter, NoFilter>>, <<NoFilter, Literal(".")>>}
    ELSE {<<NoFilter, Literal(".")>>}

OptSteps == {None} \cup {Some(n) : n \in 0 .. MaxSteps}

\* `>=` for `>`: the points at max_steps are dropped
BeyondMaxEarly(steps, max_steps) ==
    max_steps # None /\ steps >= max_steps[1]

\* line 210: max_steps is not None and steps > max_steps
BeyondMax(steps, max_steps) ==
    max_steps # None /\ steps > max_steps[1]

\* lines 203-205: reachable has been called on a grid and has set up seen
\* and queue; nothing is yielded yet
InitReach ==
    \E g \in SearchGrids :
    \E p \in PointsOf(g), f \in ReachFilters(g), min_steps \in 0 .. MaxSteps,
       max_steps \in OptSteps, include_diagonal \in BOOLEAN :
        /\ self = g
        /\ ctor = [err |-> "ok", w |-> g.w, h |-> g.h]
        /\ pc = "loop"
        /\ last = [op |-> "reachable", p |-> p, exclude |-> f[1],
                   include |-> f[2], min_steps |-> min_steps,
                   max_steps |-> max_steps,
                   include_diagonal |-> include_diagonal,
                   allow_overflow |-> None, err |-> "ok"]
        /\ ret = <<>>
        /\ queue = <<<<p, 0>>>>
        /\ seen = {p}
        /\ predecessors = <<>>
        /\ yielded = <<>>

\* lines 207-225: one iteration of `while queue`
ReachableStep ==
    /\ last.op = "reachable"
    /\ pc = "loop"
    /\ queue # <<>>
    /\ \E current_point \in {popleft(queue).item[1]} :
       \E steps \in {popleft(queue).item[2]} :
          IF BeyondMax(steps, last.max_steps)
          THEN /\ queue' = popleft(queue).rest
               /\ UNCHANGED <<seen, yielded>>
          ELSE /\ InBox(self, last, current_point)
               /\ \E fresh \in {Unseen(self, last, current_point, seen)} :
                     /\ queue' = popleft(queue).rest
                                 \o [i \in 1 .. Len(fresh) |->
                                        <<fresh[i], steps + 1>>]
                     /\ seen' = seen \cup {fresh[i] : i \in 1 .. Len(fresh)}
               /\ yielded' = IF steps >= last.min_steps
                             THEN Append(yielded, <<current_point, steps>>)
                             ELSE yielded
    /\ UNCHANGED <<self, ctor, pc, last, ret, predecessors>>

\* the queue is empty: the generator is exhausted
ReachableEnd ==
    /\ last.op = "reachable"
    /\ pc = "loop"
    /\ queue = <<>>
    /\ pc' = "exhausted"
    /\ ret' = yielded
    /\ UNCHANGED <<self, ctor, last, search>>

NextReach == ReachableStep \/ ReachableEnd

SpecReach == InitReach /\ [][NextReach]_vars

----------------------------------------------------------------------------
(* Claims about construction and mutation, checked under Spec *)

\* C1: in every state reached from a successfully constructed Grid by fill,
\* replace (any point, any allow_overflow argument) and swap, len(data) is
\* w * h, and w and h are the values the constructor set.
C1_DataLenIsWTimesH ==
    ctor.err = "ok" =>
        /\ Len(self.data) = self.w * self.h
        /\ self.w = ctor.w
        /\ self.h = ctor.h

\* C1's case: a fill has rewritten a 2 x 2 grid that a replace had changed
C1_Witness ==
    /\ last.op = "fill"
    /\ self.w = 2
    /\ self.h = 2
    /\ self.data = <<"a", "a", "a", "a">>

\* the effect C6 states for replace(p, v) while overflow is not active
C6_Effect(pre, p, value, err, post) ==
    IF inbounds(pre, p)
    THEN /\ err = "ok"
         /\ post = [pre EXCEPT !.data[p[2] * pre.w + p[1] + 1] = value]
    ELSE /\ err = "ok"
         /\ post = pre

\* C6: replace(p, v) for which overflow is not active (allow_overflow=False
\* is passed, or nothing is passed and the grid's flag is False) completes
\* without failing and leaves data, w and h unchanged when p is out of
\* bounds, and sets exactly the cell at p to v when p is in bounds.
C6_ReplaceWithoutOverflow ==
    (/\ last.op = "replace"
     /\ last.color = None
     /\ ~resolve_allow_overflow(last.pre, last.allow_overflow))
        => C6_Effect(last.pre, last.p, last.value, last.err, self)

Divides(d, n) == \E k \in 0 .. n : k * d = n

\* the dimensions C9 calls wrong for a flat sequence of length n
C9_BadDimensions(n, w, h) ==
    \/ w # None /\ ~Divides(w[1], n)
    \/ h # None /\ ~Divides(h[1], n)
    \/ w # None /\ h # None /\ w[1] * h[1] # n
    \/ w = None /\ h = None /\ IntSqrt(n) * IntSqrt(n) # n

\* C9: construction fails when a given w or h does not divide len(data),
\* when both are given and their product is not len(data), and when neither
\* is given and len(data) is no perfect square; otherwise it succeeds with
\* w * h = len(data).
C9_ConstructionFailsUnlessTiled ==
    last.op = "__init__" =>
        IF C9_BadDimensions(Len(last.data), last.w, last.h)
        THEN last.err # "ok"
        ELSE last.err = "ok" /\ self.w * self.h = Len(last.data)

----------------------------------------------------------------------------
(* Claims about the calls that read the grid, checked under SpecQuery *)

\* the directions of a candidate sequence
CandidateDirections(include_diagonal) ==
    {Cardinals[i] : i \in 1 .. 4}
    \cup (IF include_diagonal THEN {Diagonals[i] : i \in 1 .. 4} ELSE {})

\* the cell at an in-bounds point: index y * w + x of the row-major data
CellAt(g, p) == g.data[p[2] * g.w + p[1] + 1]

\* C5: on a non-overflowing grid, whatever its cells hold, neighbors(p) with
\* no filter yields exactly one triple (point, value, direction) for each
\* candidate direction whose neighbour is in bounds and none for the others.
C5_NeighborsAreTheInBoundsDirections ==
    (/\ last.op = "neighbors"
     /\ ~self.allow_overflow
     /\ last.allow_overflow # Some(TRUE)
     /\ last.exclude = NoFilter
     /\ last.include = NoFilter)
        => /\ {ret[i] : i \in 1 .. Len(ret)}
                = {<<neighbor(last.p, d), CellAt(self, neighbor(last.p, d)), d>> :
                     d \in {e \in CandidateDirections(last.include_diagonal) :
                              inbounds(self, neighbor(last.p, e))}}
           /\ \A i, j \in 1 .. Len(ret) : ret[i][3] = ret[j][3] => i = j

\* C7: at((x, y)) returns data[(y mod h) * w + (x mod w)] whenever overflow
\* is active for the grid or requested by the call, for every integer point.
C7_AtWrapsModuloWH ==
    (last.op = "at" /\ resolve_allow_overflow(self, last.allow_overflow))
        => /\ last.err = "ok"
           /\ ret = self.data[(last.p[2] % self.h) * self.w
                              + (last.p[1] % self.w) + 1]

\* C7's case: a wrapped lookup left of and above the grid that finds "a"
\* where the first cell holds None
C7_Witness ==
    /\ last.op = "at"
    /\ resolve_allow_overflow(self, last.allow_overflow)
    /\ last.p = <<0 - 1, 0 - 1>>
    /\ self.w = 2
    /\ self.h = 2
    /\ self.data[1] = NoneVal
    /\ ret = "a"

\* C8: get(p, d) equals at(p), the element at index y * w + x, when p is in
\* bounds; and returns d without failing when p is out of bounds and
\* overflow is not in effect for the call.
C8_GetIsAtOrDefault ==
    last.op = "get" =>
        /\ inbounds(self, last.p) =>
              /\ last.err = "ok"
              /\ ret = CellAt(self, last.p)
              /\ ret = at(self, last.p, None).val
        /\ (/\ ~inbounds(self, last.p)
            /\ ~resolve_allow_overflow(self, last.allow_overflow)) =>
              /\ last.err = "ok"
              /\ ret = last.default

\* C8's case: an out-of-bounds get returned the caller's default
C8_Witness ==
    /\ last.op = "get"
    /\ ~inbounds(self, last.p)
    /\ ~resolve_allow_overflow(self, last.allow_overflow)
    /\ last.default = "d"
    /\ ret = "d"

\* C10: transpose() returns a new grid of width h and height w whose element
\* at (x, y) is the receiver's element at (y, x), leaves the receiver
\* unchanged, and transposing twice gives the original w, h and data.
C10_Transpose ==
    /\ last.op = "transpose" =>
          /\ last.err = "ok"
          /\ self = last.pre
          /\ ret.w = self.h
          /\ ret.h = self.w
          /\ Len(ret.data) = Len(self.data)
          /\ \A x \in 0 .. ret.w - 1, y \in 0 .. ret.h - 1 :
                CellAt(ret, <<x, y>>) = CellAt(self, <<y, x>>)
    /\ last.op = "transpose.transpose" =>
          /\ last.err = "ok"
          /\ self = last.pre
          /\ ret.w = self.w
          /\ ret.h = self.h
          /\ ret.data = self.data

\* C10's case: a 2 x 2 grid whose off-diagonal cells differ was transposed
C10_Witness ==
    /\ last.op = "transpose"
    /\ self.w = 2
    /\ self.h = 2
    /\ self.data = <<"a", "a", NoneVal, "a">>
    /\ ret.data = <<"a", NoneVal, "a", "a">>

\* C11: rotate() returns a new grid of width h and height w whose row r is
\* the receiver's column r reversed (bottom to top: a clockwise quarter
\* turn), leaves the receiver unchanged, and rotating four times gives the
\* original w, h and data; the grid may be square or not.
C11_Rotate ==
    /\ last.op = "rotate" =>
          /\ last.err = "ok"
          /\ self = last.pre
          /\ ret.w = self.h
          /\ ret.h = self.w
          /\ Len(ret.data) = Len(self.data)
          /\ \A x \in 0 .. ret.w - 1, r \in 0 .. ret.h - 1 :
                CellAt(ret, <<x, r>>) = CellAt(self, <<r, self.h - 1 - x>>)
    /\ last.op = "rotate.rotate.rotate.rotate" =>
          /\ last.err = "ok"
          /\ self = last.pre
          /\ ret.w = self.w
          /\ ret.h = self.h
          /\ ret.data = self.data

\* C11's case: a grid of one column, three cells high, was rotated into one
\* row with the bottom cell first
C11_Witness ==
    /\ last.op = "rotate"
    /\ self.w = 1
    /\ self.h = 3
    /\ self.data = <<"a", NoneVal, NoneVal>>
    /\ ret.w = 3
    /\ ret.h = 1
    /\ ret.data = <<NoneVal, NoneVal, "a">>

\* C12: whenever two grids are equal (A == B), their hashes are equal, so
\* that they are one key of a set or a dict; also when the two grids hold
\* the same flat data with different w and h.
C12_EqualGridsHashEqual ==
    last.op = "__eq__" =>
        (ret.eq => ret.hash_self = ret.hash_other)

----------------------------------------------------------------------------
(* Claims about shortest_path, checked under SpecPath *)

\* the filtered neighbour relation of a call: the points one step from p
Successors(g, c, p) ==
    LET n == NeighborPoints(g, c, p)
    IN  {n[i] : i \in 1 .. Len(n)}

\* the least number of steps from the points of frontier (d steps from the
\* start) to target through the box, or -1 when there is no such way
RECURSIVE StepsFrom(_, _, _, _, _, _)
StepsFrom(g, c, frontier, visited, target, d) ==
    IF target \in frontier THEN d
    ELSE IF frontier = {} THEN 0 - 1
    ELSE LET next == UNION {Successors(g, c, p) : p \in frontier}
         IN  StepsFrom(g, c, (next \cap Box(g)) \ visited, visited \cup next,
                       target, d + 1)

\* the distance from source to target under the filtered neighbour relation
Distance(g, c, source, target) ==
    StepsFrom(g, c, {source}, {source}, target, 0)

AllPassable(g) == \A i \in 1 .. Len(g.data) : g.data[i] = "."

\* C2: when a path exists under the filtered neighbour relation,
\* shortest_path returns a sequence from source to target whose consecutive
\* points are neighbours and whose number of edges is the least possible; on
\* an all-passable 3 x 3 grid from (0,0) to (2,2) it has 5 points without
\* diagonals and 3 with them; for source = target it is the single point.
C2_ShortestPath ==
    (last.op = "shortest_path" /\ pc \in {"returned", "failed"}) =>
        /\ pc = "failed" =>
              Distance(self, last, last.source, last.target) = 0 - 1
        /\ pc = "returned" =>
              /\ Len(ret) =
                    Distance(self, last, last.source, last.target) + 1
              /\ Len(ret) >= 1
              /\ ret[1] = last.source
              /\ ret[Len(ret)] = last.target
              /\ \A i \in 1 .. Len(ret) - 1 :
                    ret[i + 1] \in Successors(self, last, ret[i])
        /\ (pc = "returned" /\ last.source = last.target) =>
              ret = <<last.source>>
        /\ (/\ self.w = 3
            /\ self.h = 3
            /\ AllPassable(self)
            /\ ~self.allow_overflow
            /\ last.source = <<0, 0>>
            /\ last.target = <<2, 2>>) =>
              /\ pc = "returned"
              /\ Len(ret) = IF last.include_diagonal THEN 3 ELSE 5

\* C2's case: the 5-point path across the all-passable 3 x 3 grid
C2_Witness ==
    /\ last.op = "shortest_path"
    /\ pc = "returned"
    /\ self.w = 3
    /\ self.h = 3
    /\ AllPassable(self)
    /\ ~last.include_diagonal
    /\ last.source = <<0, 0>>
    /\ last.target = <<2, 2>>
    /\ Len(ret) = 5

\* the target of the call in progress cannot be reached from its source:
\* without wraparound no way leads to it through the grid; with wraparound
\* its own cell is rejected by the filters, so that no point has it as a
\* neighbour
C3_TargetUnreachable ==
    /\ last.op = "shortest_path"
    /\ last.source # last.target
    /\ IF resolve_allow_overflow(self, last.allow_overflow)
       THEN ~should_include(last.target,
                            at(self, last.target, Some(TRUE)).val,
                            last.exclude, last.include)
       ELSE Distance(self, last, last.source, last.target) = 0 - 1

\* the search in progress can no longer end.  With wraparound and filters
\* that read the cell only, the neighbour relation is the same around p and
\* around p shifted by (w, 0) or (0, h).  Once a point q other than the
\* source lies over the source's cell, the way found from the source to q
\* leads on from q to q + (q - source), and so on: infinitely many points
\* are reachable, each of them is queued before the queue can run empty, and
\* the loop ends only on an empty queue or on popping the target.
C3_RunsForever ==
    /\ last.op = "shortest_path"
    /\ pc = "loop"
    /\ resolve_allow_overflow(self, last.allow_overflow)
    /\ last.exclude.kind # "callable"
    /\ last.include.kind # "callable"
    /\ \E q \in seen :
          /\ q # last.source
          /\ q[1] % self.w = last.source[1] % self.w
          /\ q[2] % self.h = last.source[2] % self.h

\* C3: with or without wraparound, when the target cannot be reached from
\* the source under the active filters, shortest_path terminates and fails
\* with "No path found": it never returns a path and never runs forever.
C3_NoPathFails ==
    C3_TargetUnreachable => (pc # "returned" /\ ~C3_RunsForever)

----------------------------------------------------------------------------
(* Claims about reachable, checked under SpecReach *)

\* the pairs (q, d) of the points q of the box at a distance d of at most
\* c.max_steps from the start, the points of frontier being d0 steps from it
RECURSIVE DistancesFrom(_, _, _, _, _)
DistancesFrom(g, c, frontier, visited, d0) ==
    IF frontier = {} THEN {}
    ELSE IF c.max_steps # None /\ c.max_steps[1] < d0 THEN {}
    ELSE LET next == UNION {Successors(g, c, p) : p \in frontier}
         IN  {<<q, d0>> : q \in frontier}
             \cup DistancesFrom(g, c, (next \cap Box(g)) \ visited,
                                visited \cup next, d0 + 1)

\* the pairs (q, d) of the points q at distance d from p, for the d that
\* reachable is asked for
C4_Expected(g, c) ==
    {e \in DistancesFrom(g, c, {c.p}, {c.p}, 0) : e[2] >= c.min_steps}

\* C4: reachable yields exactly the points whose distance d from p under
\* the filtered neighbour relation satisfies min_steps <= d <= max_steps,
\* each once and paired with d; with min_steps=1 the start is never yielded;
\* reachable((1,1), max_steps=1) on an all-passable 3 x 3 grid without
\* diagonals yields exactly the 4 orthogonal neighbours at step 1.
C4_Reachable ==
    (last.op = "reachable" /\ pc = "exhausted") =>
        /\ {ret[i] : i \in 1 .. Len(ret)} = C4_Expected(self, last)
        /\ \A i, j \in 1 .. Len(ret) : ret[i][1] = ret[j][1] => i = j
        /\ last.min_steps = 1 =>
              \A i \in 1 .. Len(ret) : ret[i][1] # last.p
        /\ (/\ self.w = 3
            /\ self.h = 3
            /\ AllPassable(self)
            /\ ~self.allow_overflow
            /\ last.p = <<1, 1>>
            /\ last.min_steps = 1
            /\ last.max_steps = Some(1)
            /\ ~last.include_diagonal) =>
              {ret[i] : i \in 1 .. Len(ret)}
                  = {<<<<1, 0>>, 1>>, <<<<2, 1>>, 1>>,
                     <<<<1, 2>>, 1>>, <<<<0, 1>>, 1>>}

\* C4's case: the four orthogonal neighbours of the centre of the
\* all-passable 3 x 3 grid
C4_Witness ==
    /\ last.op = "reachable"
    /\ pc = "exhausted"
    /\ self.w = 3
    /\ self.h = 3
    /\ AllPassable(self)
    /\ ~self.allow_overflow
    /\ last.p = <<1, 1>>
    /\ last.min_steps = 1
    /\ last.max_steps = Some(1)
    /\ ~last.include_diagonal
    /\ Len(ret) = 4

====
